---- MODULE Spec2Model ----
(***************************************************************************)
(* A model of src/solana/solanaMevEngine.rs: the DexSlippage state record, *)
(* its Borsh wire layout, the account handlers (initialize, set_slippage,  *)
(* enable_mev, set_liquidity_threshold, update_trading_balance,            *)
(* process_instruction, withdraw_funds), calculate_arbitrage,              *)
(* rebalance_portfolio and execute_liquidity_provision.                    *)
(*                                                                         *)
(* Fixed-width integers are kept at their width.  A u64 is a sequence of   *)
(* four 16-bit limbs, least significant first; an i128 is eight limbs in   *)
(* two's complement.  Arithmetic is limb-wise with carry, so that wrapping *)
(* and overflow are computed, not assumed.                                 *)
(***************************************************************************)
EXTENDS Integers, Sequences, FiniteSets, TLC

\* ------------------------------------------------------------------------
\* Fixed-width arithmetic on limb sequences
\* ------------------------------------------------------------------------

ByteBase == 16 * 16

LimbBase == ByteBase * ByteBase

HalfLimb == LimbBase \div 2

RECURSIVE Pow2(_)
Pow2(n) == IF n = 0 THEN 1 ELSE 2 * Pow2(n - 1)

\* n limbs, all equal to v
Fill(n, v) == [i \in 1..n |-> v]

\* The n-limb number with value v, for 0 <= v < LimbBase * HalfLimb
RECURSIVE OfNat(_, _)
OfNat(n, v) ==
    IF n = 0 THEN <<>> ELSE <<v % LimbBase>> \o OfNat(n - 1, v \div LimbBase)

\* a + b + cin over Len(a) limbs: <<sum limbs, carry out>>
RECURSIVE AddC(_, _, _)
AddC(a, b, cin) ==
    IF a = <<>> THEN <<<<>>, cin>>
    ELSE LET s == Head(a) + Head(b) + cin
             r == AddC(Tail(a), Tail(b), s \div LimbBase)
         IN  <<(<<s % LimbBase>> \o r[1]), r[2]>>

WrappingAdd(a, b) == AddC(a, b, 0)[1]

AddCarries(a, b) == AddC(a, b, 0)[2] = 1

Complement(a) == [i \in 1..Len(a) |-> (LimbBase - 1) - a[i]]

\* a - b modulo 2^(16 * Len(a))
WrappingSub(a, b) == AddC(a, Complement(b), 1)[1]

\* a < b as unsigned numbers: a - b borrows
Borrows(a, b) == AddC(a, Complement(b), 1)[2] = 0

\* a * k modulo 2^(16 * Len(a)), for a small multiplier k
RECURSIVE MulC(_, _, _)
MulC(a, k, cin) ==
    IF a = <<>> THEN <<>>
    ELSE LET p == Head(a) * k + cin
         IN  <<p % LimbBase>> \o MulC(Tail(a), k, p \div LimbBase)

WrappingMul(a, k) == MulC(a, k, 0)

\* the sign bit of a two's complement number
IsNegative(a) == a[Len(a)] >= HalfLimb

\* a >> s for 0 <= s < 16; `top` is shifted in from above (0: logical shift,
\* LimbBase - 1: arithmetic shift of a negative number)
ShiftRight(a, s, top) ==
    [i \in 1..Len(a) |->
        (a[i] \div Pow2(s))
        + ((IF i = Len(a) THEN top ELSE a[i + 1]) % Pow2(s)) * Pow2(16 - s)]

LogicalShr(a, s) == ShiftRight(a, s, 0)

ArithmeticShr(a, s) == ShiftRight(a, s, IF IsNegative(a) THEN LimbBase - 1 ELSE 0)

\* widening casts: u64 as i128 (zero extension), i64 as i128 (sign extension)
ZeroExtend(a, n) == a \o Fill(n - Len(a), 0)

SignExtend(a, n) == a \o Fill(n - Len(a), IF IsNegative(a) THEN LimbBase - 1 ELSE 0)

\* a > b as unsigned numbers of equal length
UnsignedGt(a, b) == Borrows(b, a)

\* a > b as two's complement numbers of equal length
SignedGt(a, b) ==
    IF IsNegative(a) # IsNegative(b) THEN IsNegative(b) ELSE UnsignedGt(a, b)

\* x & y on naturals, bit by bit
RECURSIVE BitAnd(_, _)
BitAnd(x, y) ==
    IF x = 0 \/ y = 0 THEN 0
    ELSE (x % 2) * (y % 2) + 2 * BitAnd(x \div 2, y \div 2)

U64Limbs == 4

I128Limbs == 8

U64(v) == OfNat(U64Limbs, v)

U64MAX == Fill(U64Limbs, LimbBase - 1)

\* 2^63: the u64 whose `as i64` is i64::MIN
U64HIGH == <<0, 0, 0, HalfLimb>>

\* ------------------------------------------------------------------------
\* Bytes, keys and the Borsh layout of DexSlippage
\* ------------------------------------------------------------------------

\* u64::to_le_bytes
RECURSIVE ToLeBytes(_)
ToLeBytes(a) ==
    IF a = <<>> THEN <<>>
    ELSE <<Head(a) % ByteBase, Head(a) \div ByteBase>> \o ToLeBytes(Tail(a))

\* u64::from_le_bytes
RECURSIVE FromLeBytes(_)
FromLeBytes(b) ==
    IF b = <<>> THEN <<>>
    ELSE <<b[1] + ByteBase * b[2]>> \o FromLeBytes(SubSeq(b, 3, Len(b)))

PubkeyBytes == 32

\* a key: 32 bytes
Key(n) == [i \in 1..PubkeyBytes |-> IF i = 1 THEN n ELSE 0]

\* the system program's id is the all-zero key
SystemProgramId == Key(0)

ProgramId == Key(1)

Alice == Key(2)

Bob == Key(3)

SysvarRentId == Key(4)

TokenProgramId == Key(5)

\* DexSlippage::LEN
LEN == 32 + 8 + 1 + 8 + 8 + 1 + 1 + 1 + 8

BoolByte(b) == IF b THEN 1 ELSE 0

\* BorshSerialize for DexSlippage: the fields in declaration order
Serialize(r) ==
    r.owner
    \o ToLeBytes(r.arb_tx_price)
    \o <<BoolByte(r.enable_trading)>>
    \o ToLeBytes(r.token_pair)
    \o ToLeBytes(r.trading_balance_in_tokens)
    \o <<BoolByte(r.is_slippage_set)>>
    \o <<r.slippage_percent>>
    \o <<BoolByte(r.mev_enabled)>>
    \o ToLeBytes(r.liquidity_threshold)

\* the fields read from 68 bytes, in declaration order
Fields(b) ==
    [owner                     |-> SubSeq(b, 1, 32),
     arb_tx_price              |-> FromLeBytes(SubSeq(b, 33, 40)),
     enable_trading            |-> b[41] = 1,
     token_pair                |-> FromLeBytes(SubSeq(b, 42, 49)),
     trading_balance_in_tokens |-> FromLeBytes(SubSeq(b, 50, 57)),
     is_slippage_set           |-> b[58] = 1,
     slippage_percent          |-> b[59],
     mev_enabled               |-> b[60] = 1,
     liquidity_threshold       |-> FromLeBytes(SubSeq(b, 61, 68))]

\* DexSlippage::try_from_slice succeeds: exactly LEN bytes (fewer: unexpected
\* end of input; more: not all bytes read) and every bool byte 0 or 1
Deserializes(b) ==
    /\ Len(b) = LEN
    /\ \A i \in {41, 58, 60} : b[i] \in {0, 1}

\* a Write into a byte slice: overwrites its head; fails when the slice is
\* shorter than the bytes written
WriteFits(buf, bytes) == Len(bytes) <= Len(buf)

WriteInto(buf, bytes) == bytes \o SubSeq(buf, Len(bytes) + 1, Len(buf))

\* ------------------------------------------------------------------------
\* The ledger as the handlers see it
\* ------------------------------------------------------------------------

\* the state slot's key
StateKey == Key(6)

\* accounts that hold funding (lamports).  A balance is a natural number: the
\* ledger's supply keeps every sum of balances below 2^64.  The slot keeps its
\* bytes when its balance is 0; reclaiming an empty account is the ledger's
\* business, not the program's.
Accounts == {Alice, Bob, StateKey}

\* lamports a fresh slot of LEN bytes needs: rent.minimum_balance(LEN), in
\* units of the model
RequiredLamports == 2

\* the number of handler calls and deposits of a behaviour
MaxCalls == 3

VARIABLES
    state_data,       \* the slot's bytes (state_account.data)
    state_owner,      \* the program that owns the slot (state_account.owner)
    lamports,         \* each account's funding balance
    overflow_checks,  \* whether the build traps integer overflow
    init_owner,       \* the owner written by the successful initialize
    last,             \* the last handler call: its inputs, result and pre-state
    calls,            \* the number of steps taken
    arb_pc,           \* where calculate_arbitrage stands
    arb_amount,       \* its `amount` argument
    arb_quotes,       \* the calls of get_price_from_router it has made, in order
    arb_out,          \* what it returned and the values it reported
    reb_pc,           \* where rebalance_portfolio stands
    reb_amount,       \* its `amount` argument
    reb_balance,      \* initial_balance_a and initial_balance_b
    reb_i,            \* the loop variable i
    reb_adjustment,   \* adjustment_a and adjustment_b
    reb_trades,       \* the calls of sell_token and buy_token it has made, in order
    reb_out,          \* what it returned
    liq_pc,           \* where execute_liquidity_provision stands
    liq_amount,       \* its arguments amount_a and amount_b
    liq_step,         \* the loop variable step
    liq_total,        \* total_liquidity_a and total_liquidity_b
    liq_out           \* what it returned and the ratio it reported

ledger_vars == <<state_data, state_owner, lamports, init_owner, last, calls>>

arb_vars == <<arb_pc, arb_amount, arb_quotes, arb_out>>

reb_vars ==
    <<reb_pc, reb_amount, reb_balance, reb_i, reb_adjustment, reb_trades, reb_out>>

liq_vars == <<liq_pc, liq_amount, liq_step, liq_total, liq_out>>

vars == <<ledger_vars, overflow_checks, arb_vars, reb_vars, liq_vars>>

NoKey == <<>>

\* ProgramError values
Ok == "Ok"

NotEnoughAccountKeys == "NotEnoughAccountKeys"

BorshIoError == "BorshIoError"

InvalidInstructionData == "InvalidInstructionData"

IncorrectProgramId == "IncorrectProgramId"

AccountAlreadyInitialized == "AccountAlreadyInitialized"

InvalidArgument == "InvalidArgument"

\* SystemError::AccountAlreadyInUse and ::ResultWithNegativeLamports
AccountAlreadyInUse == "Custom(0)"

InsufficientFundsForCreate == "Custom(1)"

\* TokenError::InsufficientFunds, returned by the token program
TokenInsufficientFunds == "TokenError(1)"

\* an arithmetic overflow trapped by the build: the handler aborts
Panic == "Panic"

\* the owner comparison left out
OwnerUnchecked(rec, caller) == TRUE

\* dex_slippage.owner != *owner.key
OwnerMatches(rec, caller) == rec.owner = caller

\* the outcome of a handler: its result and the ledger it leaves
Outcome(res, data, owner, lam, xfers) ==
    [result |-> res, data |-> data, owner |-> owner, lamports |-> lam, transfers |-> xfers]

\* a handler that returns `res` having touched nothing
Refuse(res) == Outcome(res, state_data, state_owner, lamports, <<>>)

\* a handler that returns `res` having written the slot's bytes
Wrote(res, data) == Outcome(res, data, state_owner, lamports, <<>>)

\* dex_slippage.serialize(&mut *state_data)
Persist(rec) ==
    IF WriteFits(state_data, Serialize(rec))
    THEN Wrote(Ok, WriteInto(state_data, Serialize(rec)))
    ELSE Refuse(BorshIoError)

\* set_slippage with accounts [owner, state_account]
set_slippage(nacc, caller, slippage_percent) ==
    IF nacc < 2 THEN Refuse(NotEnoughAccountKeys)
    ELSE IF ~Deserializes(state_data) THEN Refuse(BorshIoError)
    ELSE IF ~OwnerMatches(Fields(state_data), caller) THEN Refuse(IncorrectProgramId)
    ELSE Persist([Fields(state_data) EXCEPT !.slippage_percent = slippage_percent,
                                            !.is_slippage_set = TRUE])

\* enable_mev assigning enable_trading instead of mev_enabled
enable_mev_setting_trading(nacc, caller, enable) ==
    IF nacc < 2 THEN Refuse(NotEnoughAccountKeys)
    ELSE IF ~Deserializes(state_data) THEN Refuse(BorshIoError)
    ELSE IF ~OwnerMatches(Fields(state_data), caller) THEN Refuse(IncorrectProgramId)
    ELSE Persist([Fields(state_data) EXCEPT !.enable_trading = enable])

\* enable_mev with accounts [owner, state_account]
enable_mev(nacc, caller, enable) ==
    IF nacc < 2 THEN Refuse(NotEnoughAccountKeys)
    ELSE IF ~Deserializes(state_data) THEN Refuse(BorshIoError)
    ELSE IF ~OwnerMatches(Fields(state_data), caller) THEN Refuse(IncorrectProgramId)
    ELSE Persist([Fields(state_data) EXCEPT !.mev_enabled = enable])

\* set_liquidity_threshold with accounts [owner, state_account]
set_liquidity_threshold(nacc, caller, threshold) ==
    IF nacc < 2 THEN Refuse(NotEnoughAccountKeys)
    ELSE IF ~Deserializes(state_data) THEN Refuse(BorshIoError)
    ELSE IF ~OwnerMatches(Fields(state_data), caller) THEN Refuse(IncorrectProgramId)
    ELSE Persist([Fields(state_data) EXCEPT !.liquidity_threshold = threshold])

\* update_trading_balance with `dex_slippage.owner = *owner.key` in place of
\* the comparison
update_trading_balance_taking_owner(nacc, caller, new_balance) ==
    IF nacc < 2 THEN Refuse(NotEnoughAccountKeys)
    ELSE IF ~Deserializes(state_data) THEN Refuse(BorshIoError)
    ELSE Persist([Fields(state_data) EXCEPT !.owner = caller,
                                            !.trading_balance_in_tokens = new_balance])

\* update_trading_balance with accounts [owner, state_account]
update_trading_balance(nacc, caller, new_balance) ==
    IF nacc < 2 THEN Refuse(NotEnoughAccountKeys)
    ELSE IF ~Deserializes(state_data) THEN Refuse(BorshIoError)
    ELSE IF ~OwnerMatches(Fields(state_data), caller) THEN Refuse(IncorrectProgramId)
    ELSE Persist([Fields(state_data) EXCEPT !.trading_balance_in_tokens = new_balance])

\* system_instruction::create_account invoked with [payer, state_account]: the
\* system program refuses a target that holds lamports, holds data or is not
\* its own, and a payer that lacks the lamports
create_account(payer) ==
    IF lamports[StateKey] > 0 \/ state_data # <<>> \/ state_owner # SystemProgramId
    THEN Refuse(AccountAlreadyInUse)
    ELSE IF payer = StateKey \/ lamports[payer] < RequiredLamports
    THEN Refuse(InsufficientFundsForCreate)
    ELSE Outcome(Ok, Fill(LEN, 0), ProgramId,
                 [lamports EXCEPT ![payer] = @ - RequiredLamports,
                                  ![StateKey] = RequiredLamports],
                 <<>>)

\* initialize without the final serialize into the slot
initialize_without_write(nacc, payer, system_program, rent_info, data) ==
    IF nacc < 4 THEN Refuse(NotEnoughAccountKeys)
    ELSE IF state_owner # system_program THEN Refuse(AccountAlreadyInitialized)
    ELSE IF rent_info # SysvarRentId THEN Refuse(InvalidArgument)
    ELSE LET created == create_account(payer)
         IN  IF created.result # Ok THEN created
             ELSE IF ~Deserializes(data)
             THEN [created EXCEPT !.result = BorshIoError]
             ELSE created

\* initialize with accounts [payer, state_account, system_program, rent_info]
initialize(nacc, payer, system_program, rent_info, data) ==
    IF nacc < 4 THEN Refuse(NotEnoughAccountKeys)
    ELSE IF state_owner # system_program THEN Refuse(AccountAlreadyInitialized)
    ELSE IF rent_info # SysvarRentId THEN Refuse(InvalidArgument)
    ELSE LET created == create_account(payer)
         IN  IF created.result # Ok THEN created
             ELSE IF ~Deserializes(data)
             THEN [created EXCEPT !.result = BorshIoError]
             ELSE IF ~WriteFits(created.data, Serialize(Fields(data)))
             THEN [created EXCEPT !.result = BorshIoError]
             ELSE [created EXCEPT
                     !.data = WriteInto(created.data, Serialize(Fields(data)))]

\* whether `trading_balance_in_tokens += amount` aborts: the sum leaves the
\* u64 range and the build traps overflow
AddAborts(balance, amount) == overflow_checks /\ AddCarries(balance, amount)

\* the first 8 bytes read most significant byte first
AmountOfBigEndian(instruction_data) ==
    FromLeBytes([i \in 1..8 |-> instruction_data[9 - i]])

\* the amount read from the instruction payload: its first 8 bytes, little-endian
AmountOf(instruction_data) == FromLeBytes(SubSeq(instruction_data, 1, 8))

\* transfer_tokens: spl_token's transfer() builds the instruction only for the
\* token program's id; invoke() returns what the token program returns
transfer_tokens(token_program, amount, token_result) ==
    IF token_program # TokenProgramId
    THEN [result |-> IncorrectProgramId, transfers |-> <<>>]
    ELSE [result |-> token_result, transfers |-> <<amount>>]

\* process_instruction with the result of transfer_tokens dropped
process_instruction_ignoring_failure(nacc, caller, token_program, instruction_data, token_result) ==
    IF nacc < 7 THEN Refuse(NotEnoughAccountKeys)
    ELSE IF ~Deserializes(state_data) THEN Refuse(BorshIoError)
    ELSE IF Len(instruction_data) < 8 THEN Refuse(InvalidInstructionData)
    ELSE IF ~OwnerMatches(Fields(state_data), caller) THEN Refuse(IncorrectProgramId)
    ELSE LET rec    == Fields(state_data)
             amount == AmountOf(instruction_data)
             moved  == transfer_tokens(token_program, amount, token_result)
         IN  IF AddAborts(rec.trading_balance_in_tokens, amount)
             THEN [Refuse(Panic) EXCEPT !.transfers = moved.transfers]
             ELSE [Persist([rec EXCEPT !.trading_balance_in_tokens =
                                          WrappingAdd(@, amount)])
                     EXCEPT !.transfers = moved.transfers]

\* process_instruction with accounts [owner, token_program, token_account_from,
\* token_account_to, authority, rent_info, state_account]
process_instruction(nacc, caller, token_program, instruction_data, token_result) ==
    IF nacc < 7 THEN Refuse(NotEnoughAccountKeys)
    ELSE IF ~Deserializes(state_data) THEN Refuse(BorshIoError)
    ELSE IF Len(instruction_data) < 8 THEN Refuse(InvalidInstructionData)
    ELSE IF ~OwnerMatches(Fields(state_data), caller) THEN Refuse(IncorrectProgramId)
    ELSE LET rec    == Fields(state_data)
             amount == AmountOf(instruction_data)
             moved  == transfer_tokens(token_program, amount, token_result)
         IN  IF moved.result # Ok
             THEN [Refuse(moved.result) EXCEPT !.transfers = moved.transfers]
             ELSE IF AddAborts(rec.trading_balance_in_tokens, amount)
             THEN [Refuse(Panic) EXCEPT !.transfers = moved.transfers]
             ELSE [Persist([rec EXCEPT !.trading_balance_in_tokens =
                                          WrappingAdd(@, amount)])
                     EXCEPT !.transfers = moved.transfers]

\* the move without zeroing the slot
MoveAllKeepingSlot(receiver) ==
    [lamports EXCEPT ![receiver] = @ + lamports[StateKey]]

\* the slot's lamports moved to the receiver: read, zero the slot, add
MoveAll(receiver) ==
    LET amount  == lamports[StateKey]
        zeroed  == [lamports EXCEPT ![StateKey] = 0]
    IN  [zeroed EXCEPT ![receiver] = @ + amount]

\* withdraw_funds with accounts [owner, state_account, receiver]
withdraw_funds(nacc, caller, receiver) ==
    IF nacc < 3 THEN Refuse(NotEnoughAccountKeys)
    ELSE IF ~Deserializes(state_data) THEN Refuse(BorshIoError)
    ELSE IF ~OwnerMatches(Fields(state_data), caller) THEN Refuse(IncorrectProgramId)
    ELSE Outcome(Ok, state_data, state_owner, MoveAll(receiver), <<>>)

\* ------------------------------------------------------------------------
\* Inputs
\* ------------------------------------------------------------------------

\* the keys a request names as its first account
Callers == {Alice, Bob}

\* a request supplies all the accounts a handler reads, or one fewer
AccountCounts(required) == {required - 1, required}

\* the record of tests::test_initialize
ZeroRecord(owner) ==
    [owner                     |-> owner,
     arb_tx_price              |-> U64(0),
     enable_trading            |-> FALSE,
     token_pair                |-> U64(0),
     trading_balance_in_tokens |-> U64(0),
     is_slippage_set           |-> FALSE,
     slippage_percent          |-> 0,
     mev_enabled               |-> FALSE,
     liquidity_threshold       |-> U64(0)]

\* a record that differs from it in every field, with values in the upper
\* bytes of each integer
FullRecord(owner) ==
    [owner                     |-> owner,
     arb_tx_price              |-> U64(1000),
     enable_trading            |-> TRUE,
     token_pair                |-> U64(70000),
     trading_balance_in_tokens |-> U64MAX,
     is_slippage_set           |-> TRUE,
     slippage_percent          |-> 100,
     mev_enabled               |-> TRUE,
     liquidity_threshold       |-> U64HIGH]

InitRecords == {ZeroRecord(Alice), FullRecord(Alice), FullRecord(Bob)}

\* how a caller may shape the payload of initialize around a record's bytes
PayloadShapes == {"exact", "short", "long", "badbool"}

\* the payloads of initialize: every record's bytes, and one record's bytes
\* in every shape
InitInputs ==
    {<<r, "exact">> : r \in InitRecords}
    \cup {<<FullRecord(Alice), sh>> : sh \in PayloadShapes}

Shaped(bytes, shape) ==
    CASE shape = "exact"   -> bytes
      [] shape = "short"   -> SubSeq(bytes, 1, Len(bytes) - 1)
      [] shape = "long"    -> bytes \o <<0>>
      [] shape = "badbool" -> [bytes EXCEPT ![41] = 2]

SlippageValues == {5, 100, 200}

U64Values == {U64(0), U64(1000), U64MAX}

\* instruction payloads of process_instruction: none, 7 bytes, 8 bytes, and 8
\* bytes followed by one more
TransferPayloads ==
    {<<>>, SubSeq(ToLeBytes(U64(1)), 1, 7)}
    \cup {ToLeBytes(a) : a \in {U64(1), U64HIGH}}
    \cup {ToLeBytes(U64(258)) \o <<7>>}

\* what the token program may return to invoke()
TokenResults == {Ok, TokenInsufficientFunds}

\* ------------------------------------------------------------------------
\* The account handlers as actions
\* ------------------------------------------------------------------------

NoCall ==
    [op |-> "none", nacc |-> 0, caller |-> NoKey, arg |-> <<>>, peer |-> NoKey,
     aux |-> NoKey, ext |-> Ok, fields |-> <<>>, result |-> Ok, transfers |-> <<>>,
     pre_data |-> <<>>, pre_owner |-> NoKey, pre_lamports |-> <<>>,
     pre_init_owner |-> NoKey]

\* a handler call: the ledger becomes what the handler left, and the call is
\* recorded with the ledger it started from
Call(op, nacc, caller, arg, peer, aux, ext, fields, out) ==
    /\ calls < MaxCalls
    /\ calls' = calls + 1
    /\ state_data' = out.data
    /\ state_owner' = out.owner
    /\ lamports' = out.lamports
    /\ last' = [op |-> op, nacc |-> nacc, caller |-> caller, arg |-> arg,
                peer |-> peer, aux |-> aux, ext |-> ext, fields |-> fields,
                result |-> out.result, transfers |-> out.transfers,
                pre_data |-> state_data, pre_owner |-> state_owner,
                pre_lamports |-> lamports, pre_init_owner |-> init_owner]
    /\ init_owner' = IF op = "initialize" /\ out.result = Ok
                     THEN fields.owner ELSE init_owner
    /\ UNCHANGED <<overflow_checks, arb_vars, reb_vars, liq_vars>>

Initialize ==
    \E nacc \in AccountCounts(4), payer \in Callers,
       system_program \in {SystemProgramId, ProgramId},
       rent_info \in {SysvarRentId, Bob}, in \in InitInputs :
        Call("initialize", nacc, payer, Shaped(Serialize(in[1]), in[2]),
             system_program, rent_info, Ok, in[1],
             initialize(nacc, payer, system_program, rent_info,
                        Shaped(Serialize(in[1]), in[2])))

SetSlippage ==
    \E nacc \in AccountCounts(2), caller \in Callers, p \in SlippageValues :
        Call("set_slippage", nacc, caller, p, NoKey, NoKey, Ok, <<>>,
             set_slippage(nacc, caller, p))

EnableMev ==
    \E nacc \in AccountCounts(2), caller \in Callers, e \in BOOLEAN :
        Call("enable_mev", nacc, caller, e, NoKey, NoKey, Ok, <<>>,
             enable_mev(nacc, caller, e))

SetLiquidityThreshold ==
    \E nacc \in AccountCounts(2), caller \in Callers, t \in U64Values :
        Call("set_liquidity_threshold", nacc, caller, t, NoKey, NoKey, Ok, <<>>,
             set_liquidity_threshold(nacc, caller, t))

UpdateTradingBalance ==
    \E nacc \in AccountCounts(2), caller \in Callers, b \in U64Values :
        Call("update_trading_balance", nacc, caller, b, NoKey, NoKey, Ok, <<>>,
             update_trading_balance(nacc, caller, b))

ProcessInstruction ==
    \E nacc \in AccountCounts(7), caller \in Callers,
       token_program \in {TokenProgramId, ProgramId},
       data \in TransferPayloads, token_result \in TokenResults :
        Call("process_instruction", nacc, caller, data, token_program, NoKey,
             token_result, <<>>,
             process_instruction(nacc, caller, token_program, data, token_result))

WithdrawFunds ==
    \E nacc \in AccountCounts(3), caller \in Callers, receiver \in Accounts :
        Call("withdraw_funds", nacc, caller, <<>>, receiver, NoKey, Ok, <<>>,
             withdraw_funds(nacc, caller, receiver))

\* the ledger lets any account credit any other: a lamport sent to the slot
Deposit ==
    \E donor \in Callers :
        /\ calls < MaxCalls
        /\ lamports[donor] > 0
        /\ calls' = calls + 1
        /\ lamports' = [lamports EXCEPT ![donor] = @ - 1, ![StateKey] = @ + 1]
        /\ last' = NoCall
        /\ UNCHANGED <<state_data, state_owner, overflow_checks, init_owner, arb_vars,
                       reb_vars, liq_vars>>

\* no evaluation under way
NoDecision == [result |-> "none"]

ArbIdle ==
    /\ arb_pc = "idle"
    /\ arb_amount = <<>>
    /\ arb_quotes = <<>>
    /\ arb_out = NoDecision

\* no rebalance under way
RebIdle ==
    /\ reb_pc = "idle"
    /\ reb_amount = <<>>
    /\ reb_balance = <<>>
    /\ reb_i = 0
    /\ reb_adjustment = <<>>
    /\ reb_trades = <<>>
    /\ reb_out = NoDecision

\* no liquidity provision under way
LiqIdle ==
    /\ liq_pc = "idle"
    /\ liq_amount = <<>>
    /\ liq_step = 0
    /\ liq_total = <<>>
    /\ liq_out = NoDecision

\* a slot nobody has created, owned by the system program
LedgerInit ==
    /\ state_data = <<>>
    /\ state_owner = SystemProgramId
    /\ lamports = [a \in Accounts |->
                     IF a = Alice THEN RequiredLamports + 1
                     ELSE IF a = Bob THEN 1 ELSE 0]
    /\ init_owner = NoKey
    /\ last = NoCall
    /\ calls = 0

Init ==
    /\ LedgerInit
    /\ overflow_checks \in BOOLEAN
    /\ ArbIdle
    /\ RebIdle
    /\ LiqIdle

Next ==
    \/ Initialize
    \/ SetSlippage
    \/ EnableMev
    \/ SetLiquidityThreshold
    \/ UpdateTradingBalance
    \/ ProcessInstruction
    \/ WithdrawFunds
    \/ Deposit

Spec == Init /\ [][Next]_vars

\* ------------------------------------------------------------------------
\* Properties of the account handlers
\* ------------------------------------------------------------------------

MutatingOps ==
    {"set_slippage", "enable_mev", "set_liquidity_threshold",
     "update_trading_balance", "withdraw_funds", "process_instruction"}

\* the last call left the ledger as it found it and invoked no token transfer
Untouched ==
    /\ state_data = last.pre_data
    /\ state_owner = last.pre_owner
    /\ lamports = last.pre_lamports
    /\ last.transfers = <<>>

\* the last call supplied a caller account and a slot whose record stores
\* another key as its owner
ForeignCaller ==
    /\ last.op \in MutatingOps
    /\ last.nacc >= (IF last.op = "process_instruction" THEN 7 ELSE 2)
    /\ Deserializes(last.pre_data)
    /\ Fields(last.pre_data).owner # last.caller

C2_OwnerImmutable ==
    init_owner # NoKey =>
        Deserializes(state_data) /\ Fields(state_data).owner = init_owner

C2_Witness ==
    /\ init_owner # NoKey
    /\ last.op = "update_trading_balance"
    /\ last.result = Ok
    /\ state_data # last.pre_data

\* C3 as stated: after a successful initialize, every later initialize on the
\* slot fails with AccountAlreadyInitialized and leaves the record unchanged,
\* whatever its payer, its payload and the account it names as the system
\* program (here for requests that supply four accounts, the rent sysvar
\* among them).
C3_AlreadyInitialized ==
    (/\ last.op = "initialize"
     /\ last.nacc = 4
     /\ last.aux = SysvarRentId
     /\ last.pre_init_owner # NoKey) =>
        last.result = AccountAlreadyInitialized /\ state_data = last.pre_data

\* the last call was withdraw_funds by the stored owner, with a receiver
OwnerWithdraw ==
    /\ last.op = "withdraw_funds"
    /\ last.nacc = 3
    /\ Deserializes(last.pre_data)
    /\ Fields(last.pre_data).owner = last.caller

\* what a receiver other than the slot gets: the slot is emptied into it
Emptied ==
    /\ lamports[StateKey] = 0
    /\ lamports[last.peer] = last.pre_lamports[last.peer] + last.pre_lamports[StateKey]

\* C4 as stated: after withdraw_funds by the owner, for every receiver, the
\* slot's balance is 0 and the receiver's is its previous balance plus X.
C4_WithdrawAnyReceiver == OwnerWithdraw => Emptied

\* C4 (amended): after withdraw_funds by the owner the call has succeeded and,
\* for every receiver other than the slot itself, the slot's balance is 0 and
\* the receiver's is its previous balance plus X; with the slot as its own
\* receiver every balance is what it was.
C4_WithdrawOtherReceiver ==
    OwnerWithdraw =>
        /\ last.result = Ok
        /\ IF last.peer # StateKey THEN Emptied ELSE lamports = last.pre_lamports

C4_Witness ==
    /\ OwnerWithdraw
    /\ last.peer # StateKey
    /\ last.pre_lamports[StateKey] > RequiredLamports
    /\ last.pre_lamports[last.peer] > 0
    /\ lamports[StateKey] = 0

\* C5: a successful initialize leaves LEN bytes in the slot that deserialize
\* to exactly the nine fields of the record the payload was made from.
C5_InitializeRoundTrip ==
    (last.op = "initialize" /\ last.result = Ok) =>
        /\ last.arg = Serialize(last.fields)
        /\ Len(state_data) = LEN
        /\ Deserializes(state_data)
        /\ Fields(state_data) = last.fields

C5_Witness ==
    /\ last.op = "initialize"
    /\ last.result = Ok
    /\ last.fields = FullRecord(Bob)
    /\ last.pre_data = <<>>

\* C6 as stated: a transfer by the owner whose token transfer succeeded
\* succeeds and persists the old balance plus the amount modulo 2^64.
C6_TransferNeverFails ==
    (/\ last.op = "process_instruction"
     /\ last.transfers # <<>>
     /\ last.ext = Ok) =>
        /\ last.result = Ok
        /\ Deserializes(state_data)
        /\ Fields(state_data).trading_balance_in_tokens =
             WrappingAdd(Fields(last.pre_data).trading_balance_in_tokens,
                         last.transfers[1])

\* C7: when the token transfer that process_instruction invoked fails,
\* process_instruction returns that failure and the slot keeps its bytes.
C7_TransferFailurePropagates ==
    (/\ last.op = "process_instruction"
     /\ last.transfers # <<>>
     /\ last.ext # Ok) =>
        last.result = last.ext /\ state_data = last.pre_data

C7_Witness ==
    /\ last.op = "process_instruction"
    /\ last.transfers = <<U64HIGH>>
    /\ last.ext = TokenInsufficientFunds
    /\ last.result = TokenInsufficientFunds

\* what C8 says of a payload: under 8 bytes the call fails with
\* InvalidInstructionData, moves nothing and writes nothing; otherwise the
\* amount handed to the token program is the first 8 bytes, little-endian
PayloadRule ==
    IF Len(last.arg) < 8
    THEN last.result = InvalidInstructionData /\ Untouched
    ELSE last.transfers # <<>> =>
            ToLeBytes(last.transfers[1]) = SubSeq(last.arg, 1, 8)

\* C8 as stated: the payload rule holds of every transfer request.
C8_PayloadRuleAlways == last.op = "process_instruction" => PayloadRule

\* C8 (amended): the payload rule holds of every transfer request that
\* supplies its seven accounts and whose slot holds bytes that deserialize
\* to a record; the accounts and the record are read before the payload.
C8_PayloadRuleOnRecord ==
    (/\ last.op = "process_instruction"
     /\ last.nacc = 7
     /\ Deserializes(last.pre_data)) => PayloadRule

C8_Witness ==
    /\ last.op = "process_instruction"
    /\ last.nacc = 7
    /\ Deserializes(last.pre_data)
    /\ Len(last.arg) = 7
    /\ last.result = InvalidInstructionData

\* C17 as stated, for the call that follows the withdrawal: after a successful
\* withdraw_funds, a set_slippage, enable_mev, set_liquidity_threshold,
\* update_trading_balance, transfer or withdraw call on the slot, by any
\* caller, leaves the record's bytes and every funding balance as they were
\* and invokes no token transfer.
C17_RetiredAfterWithdraw ==
    [][(/\ last.op = "withdraw_funds"
        /\ last.result = Ok
        /\ last'.op \in MutatingOps) =>
            /\ state_data' = state_data
            /\ lamports' = lamports
            /\ last'.transfers = <<>>]_vars

\* C18 as stated: once a record has been initialized (the payloads of the
\* model carry a slippage_percent of 0 or 100), the stored slippage_percent
\* is between 0 and 100 in every state, whatever is called with whatever
\* arguments.
C18_SlippageInRange ==
    init_owner # NoKey =>
        /\ Deserializes(state_data)
        /\ Fields(state_data).slippage_percent \in 0..100

ConfigOps ==
    {"set_slippage", "enable_mev", "set_liquidity_threshold", "update_trading_balance"}

\* the last call was a configuration operation by the stored owner of a record
\* that deserializes
OwnerConfig ==
    /\ last.op \in ConfigOps
    /\ last.nacc = 2
    /\ Deserializes(last.pre_data)
    /\ Fields(last.pre_data).owner = last.caller

\* the fields a configuration operation is to set
OwnFields(op) ==
    CASE op = "set_slippage"            -> {"slippage_percent", "is_slippage_set"}
      [] op = "enable_mev"              -> {"mev_enabled"}
      [] op = "set_liquidity_threshold" -> {"liquidity_threshold"}
      [] op = "update_trading_balance"  -> {"trading_balance_in_tokens"}

\* C19: a configuration operation called by the record's owner on a record that
\* deserializes succeeds; its own field holds the argument (and is_slippage_set
\* is true after set_slippage); every other field of the record, the slot's
\* length and owning program and every funding balance are what they were,
\* and no token transfer is invoked.
C19_ConfigFrame ==
    OwnerConfig =>
        /\ last.result = Ok
        /\ Deserializes(state_data)
        /\ LET old == Fields(last.pre_data)
               new == Fields(state_data)
           IN  /\ \A f \in DOMAIN old : f \notin OwnFields(last.op) => new[f] = old[f]
               /\ last.op = "set_slippage" =>
                    new.slippage_percent = last.arg /\ new.is_slippage_set
               /\ last.op = "enable_mev" => new.mev_enabled = last.arg
               /\ last.op = "set_liquidity_threshold" => new.liquidity_threshold = last.arg
               /\ last.op = "update_trading_balance" =>
                    new.trading_balance_in_tokens = last.arg
        /\ state_owner = last.pre_owner
        /\ lamports = last.pre_lamports
        /\ last.transfers = <<>>

C19_Witness ==
    /\ OwnerConfig
    /\ last.op = "enable_mev"
    /\ last.arg = TRUE
    /\ ~Fields(last.pre_data).mev_enabled
    /\ ~Fields(last.pre_data).enable_trading
    /\ Fields(state_data).mev_enabled

\* the last call was an initialize that failed on a payload that does not
\* deserialize
FailedOnPayload ==
    /\ last.op = "initialize"
    /\ ~Deserializes(last.arg)
    /\ last.result = BorshIoError

\* C22 as stated: an initialize that fails because its payload does not
\* deserialize leaves the slot as it found it (its bytes, its owning program
\* and every funding balance, the payer's among them), and an initialize with
\* a valid payload that follows it on the same slot is not rejected as
\* AccountAlreadyInitialized.
C22_NoPartialState ==
    [][/\ FailedOnPayload' =>
              /\ state_data' = state_data
              /\ state_owner' = state_owner
              /\ lamports' = lamports
       /\ (/\ FailedOnPayload
           /\ last'.op = "initialize"
           /\ Deserializes(last'.arg)) =>
              last'.result # AccountAlreadyInitialized]_vars

\* ------------------------------------------------------------------------
\* calculate_arbitrage
\* ------------------------------------------------------------------------

\* the amounts an evaluation may be asked about
ArbAmounts == {U64(1), U64(1000), U64HIGH}

\* the amounts a router may quote
PriceValues == {U64(0), U64(1100), U64(1200), U64(2500), U64HIGH, U64MAX}

\* the error of a router that cannot quote
QuoteError == "QuoteError"

\* another ProgramError a router may return
InvalidAccountData == "InvalidAccountData"

QuoteErrors == {QuoteError, InvalidAccountData}

\* get_price_from_router returns Result<u64, ProgramError>: any amount, or an error
QuoteResults ==
    {[ok |-> TRUE, value |-> v, error |-> Ok] : v \in PriceValues}
    \cup {[ok |-> FALSE, value |-> <<>>, error |-> e] : e \in QuoteErrors}

\* the router and the token pair of leg k
LegRoute(k) ==
    CASE k = 1 -> [router |-> "router1", token_in |-> "token1", token_out |-> "token2"]
      [] k = 2 -> [router |-> "router2", token_in |-> "token2", token_out |-> "token3"]
      [] k = 3 -> [router |-> "router3", token_in |-> "token3", token_out |-> "token1"]

\* every leg asked about the evaluation's own amount
LegAmountUnchained(k, amount, quotes) == amount

\* the amount leg k is asked about: `amount`, then the previous leg's price
LegAmount(k, amount, quotes) ==
    IF k = 1 THEN amount ELSE quotes[k - 1].value

\* a - b leaves the signed range: the operands differ in sign and the
\* difference has not the sign of a
SubOverflows(a, b) ==
    IsNegative(a) # IsNegative(b) /\ IsNegative(WrappingSub(a, b)) # IsNegative(a)

\* x & y, limb by limb
LimbsAnd(x, y) == [i \in 1..Len(x) |-> BitAnd(x[i], y[i])]

\* let threshold: i128 = 1000
Threshold == OfNat(I128Limbs, 1000)

\* the execution prices with the shift taken before the multiplication
FinalArbitrageValueShiftFirst(price1, price2, price3) ==
    WrappingAdd(WrappingAdd(WrappingMul(LogicalShr(price1, 2), 3),
                            WrappingMul(LogicalShr(price2, 3), 5)),
                WrappingMul(LogicalShr(price3, 4), 7))

\* the three execution prices summed, each a multiply then a shift
FinalArbitrageValue(price1, price2, price3) ==
    WrappingAdd(WrappingAdd(LogicalShr(WrappingMul(price1, 3), 2),
                            LogicalShr(WrappingMul(price2, 5), 3)),
                LogicalShr(WrappingMul(price3, 7), 4))

\* the flag as a magnitude comparison: potential_profit >= 1000
IsProfitableByMagnitude(potential_profit) ==
    ~SignedGt(Threshold, SignExtend(potential_profit, I128Limbs))

\* (potential_profit as i128 & threshold) == threshold
IsProfitable(potential_profit) ==
    LimbsAnd(SignExtend(potential_profit, I128Limbs), Threshold) = Threshold

\* the values calculate_arbitrage computes once it holds the three prices
Evaluate(amount, price1, price2, price3) ==
    IF overflow_checks /\ SubOverflows(price3, amount)
    THEN [result |-> Panic]
    ELSE LET potential_profit == WrappingSub(price3, amount)
             price_difference ==
                 ArithmeticShr(WrappingSub(ZeroExtend(price3, I128Limbs),
                                           ZeroExtend(price1, I128Limbs)), 1)
             is_profitable == IsProfitable(potential_profit)
             adjusted_profit ==
                 WrappingAdd(WrappingMul(SignExtend(potential_profit, I128Limbs), 10),
                             price_difference)
             arbitrage_opportunity == SignedGt(adjusted_profit, Threshold)
         IN  [result                |-> Ok,
              potential_profit      |-> potential_profit,
              price_difference      |-> price_difference,
              is_profitable         |-> is_profitable,
              adjusted_profit       |-> adjusted_profit,
              arbitrage_opportunity |-> arbitrage_opportunity,
              final_arbitrage_value |->
                  IF arbitrage_opportunity
                  THEN <<FinalArbitrageValue(price1, price2, price3)>>
                  ELSE <<>>]

\* calculate_arbitrage is entered with an amount
ArbStart ==
    /\ arb_pc = "idle"
    /\ \E amount \in ArbAmounts : arb_amount' = amount
    /\ arb_pc' = "leg1"
    /\ UNCHANGED <<arb_quotes, arb_out, ledger_vars, overflow_checks, reb_vars, liq_vars>>

\* get_price_from_router(router k, ...).unwrap_or(0): a failed quote counts
\* as a price of 0 and the evaluation goes on
QuoteOrZero(k, next) ==
    \E r \in QuoteResults :
        /\ arb_quotes' = Append(arb_quotes,
               [route |-> LegRoute(k),
                amount_in |-> LegAmount(k, arb_amount, arb_quotes),
                ok |-> r.ok, value |-> IF r.ok THEN r.value ELSE U64(0),
                error |-> r.error])
        /\ arb_pc' = next
        /\ arb_out' = arb_out
        /\ UNCHANGED <<arb_amount, ledger_vars, overflow_checks, reb_vars, liq_vars>>

\* get_price_from_router(router k, ...)?: the call is made and returns; an
\* error ends the evaluation with that error
Quote(k, next) ==
    \E r \in QuoteResults :
        /\ arb_quotes' = Append(arb_quotes,
               [route |-> LegRoute(k),
                amount_in |-> LegAmount(k, arb_amount, arb_quotes),
                ok |-> r.ok, value |-> r.value, error |-> r.error])
        /\ IF r.ok
           THEN arb_pc' = next /\ arb_out' = arb_out
           ELSE arb_pc' = "done" /\ arb_out' = [result |-> r.error]
        /\ UNCHANGED <<arb_amount, ledger_vars, overflow_checks, reb_vars, liq_vars>>

QuoteLeg1 == arb_pc = "leg1" /\ Quote(1, "leg2")

QuoteLeg2 == arb_pc = "leg2" /\ Quote(2, "leg3")

QuoteLeg3 == arb_pc = "leg3" /\ Quote(3, "decide")

\* the arithmetic on the three prices, and the return
ArbDecide ==
    /\ arb_pc = "decide"
    /\ arb_out' = Evaluate(arb_amount, arb_quotes[1].value, arb_quotes[2].value,
                           arb_quotes[3].value)
    /\ arb_pc' = "done"
    /\ UNCHANGED <<arb_amount, arb_quotes, ledger_vars, overflow_checks, reb_vars, liq_vars>>

ArbInit ==
    /\ LedgerInit
    /\ overflow_checks \in BOOLEAN
    /\ ArbIdle
    /\ RebIdle
    /\ LiqIdle

ArbNext ==
    \/ ArbStart
    \/ QuoteLeg1
    \/ QuoteLeg2
    \/ QuoteLeg3
    \/ ArbDecide

ArbSpec == ArbInit /\ [][ArbNext]_vars

\* ------------------------------------------------------------------------
\* Properties of calculate_arbitrage
\* ------------------------------------------------------------------------

\* the evaluation holds its three prices and has done its arithmetic
Decided == arb_pc = "done" /\ Len(arb_quotes) = 3 /\ arb_quotes[3].ok

\* the figures C9 gives for three prices and an amount
FiguresOf(amount, price1, price2, price3) ==
    LET pp == WrappingSub(price3, amount)
        pd == ArithmeticShr(WrappingSub(ZeroExtend(price3, I128Limbs),
                                        ZeroExtend(price1, I128Limbs)), 1)
        ap == WrappingAdd(WrappingMul(SignExtend(pp, I128Limbs), 10), pd)
    IN  [potential_profit |-> pp, price_difference |-> pd, adjusted_profit |-> ap,
         arbitrage_opportunity |-> SignedGt(ap, OfNat(I128Limbs, 1000))]

\* the last evaluation is the scenario of the specification
Scenario ==
    /\ arb_amount = U64(1000)
    /\ arb_quotes[1].value = U64(1100)
    /\ arb_quotes[2].value = U64(1200)
    /\ arb_quotes[3].value = U64(2500)

\* C9 as stated: for every amount and every three prices the evaluation
\* completes without arithmetic failure and reports potential_profit =
\* price3 - amount, price_difference = (price3 - price1) >> 1, adjusted_profit
\* = potential_profit * 10 + price_difference and opportunity =
\* adjusted_profit > 1000; the scenario gives 1500, 700, 15700 and true.
C9_EvaluationCompletes ==
    Decided =>
        LET f == FiguresOf(arb_amount, arb_quotes[1].value, arb_quotes[2].value,
                           arb_quotes[3].value)
        IN  /\ arb_out.result = Ok
            /\ arb_out.potential_profit = f.potential_profit
            /\ arb_out.price_difference = f.price_difference
            /\ arb_out.adjusted_profit = f.adjusted_profit
            /\ arb_out.arbitrage_opportunity = f.arbitrage_opportunity
            /\ Scenario =>
                 /\ arb_out.potential_profit = OfNat(U64Limbs, 1500)
                 /\ arb_out.price_difference = OfNat(I128Limbs, 700)
                 /\ arb_out.adjusted_profit = OfNat(I128Limbs, 15700)
                 /\ arb_out.arbitrage_opportunity

\* the quotes requested so far are the first legs, in order, each about the
\* amount the previous leg returned, and none follows a failed leg
Chained ==
    /\ Len(arb_quotes) <= 3
    /\ \A k \in 1..Len(arb_quotes) :
        /\ arb_quotes[k].route = LegRoute(k)
        /\ k = 1 => arb_quotes[k].amount_in = arb_amount
        /\ k > 1 => /\ arb_quotes[k - 1].ok
                    /\ arb_quotes[k].amount_in = arb_quotes[k - 1].value

\* C10 as stated: every evaluation requests the three leg quotes exactly once
\* each, in order, each leg about the amount the previous leg returned.
C10_ThreeQuotesAlways ==
    /\ Chained
    /\ arb_pc = "done" => Len(arb_quotes) = 3

\* C10 (amended): at every point of every evaluation the quotes requested are
\* the first legs in the order leg1, leg2, leg3, each once, leg1 about
\* input_amount and each later leg about exactly the amount the previous leg
\* returned; an evaluation in which no quote fails requests all three before
\* it decides, and one in which a quote fails requests none after it.
C10_QuotesChained ==
    /\ Chained
    /\ arb_pc \in {"decide", "done"} =>
         \/ Len(arb_quotes) = 3 /\ \A k \in 1..2 : arb_quotes[k].ok
         \/ /\ arb_pc = "done"
            /\ Len(arb_quotes) < 3
            /\ ~arb_quotes[Len(arb_quotes)].ok
    /\ arb_pc = "leg1" => Len(arb_quotes) = 0
    /\ arb_pc = "leg2" => Len(arb_quotes) = 1
    /\ arb_pc = "leg3" => Len(arb_quotes) = 2

C10_Witness ==
    /\ Decided
    /\ arb_quotes[1].amount_in = U64(1000)
    /\ arb_quotes[2].amount_in = U64(1100)
    /\ arb_quotes[3].amount_in = U64(1200)
    /\ arb_quotes[3].value = U64(2500)

\* some leg's quote has failed
LegFailed == \E k \in 1..Len(arb_quotes) : ~arb_quotes[k].ok

\* C11: when the quote of leg k fails, the evaluation is over with that
\* failure as its result, leg k is the last quote requested (no later leg is
\* queried and the failed leg is not asked again), and the result carries no
\* opportunity flag, no profit figure and no final_arbitrage_value.
C11_LegFailureAborts ==
    \A k \in 1..Len(arb_quotes) :
        ~arb_quotes[k].ok =>
            /\ arb_pc = "done"
            /\ k = Len(arb_quotes)
            /\ \A j \in 1..(k - 1) : arb_quotes[j].route # arb_quotes[k].route
            /\ arb_out.result = arb_quotes[k].error
            /\ DOMAIN arb_out = {"result"}

C11_Witness ==
    /\ Len(arb_quotes) = 3
    /\ arb_quotes[2].ok
    /\ ~arb_quotes[3].ok
    /\ arb_out.result = InvalidAccountData

\* ((price * m) mod 2^64) >> s
Scaled(price, m, s) == LogicalShr(WrappingMul(price, m), s)

\* 3 * 2^60 - 2, the sum of the scaled prices 0, 2^64 - 1 and 2^64 - 1
ScaledSumOfMax == <<LimbBase - 2, LimbBase - 1, LimbBase - 1, 3 * (LimbBase \div 16) - 1>>

\* C12: an evaluation that reaches its decision reports a final_arbitrage_value
\* exactly when its opportunity flag is true, and the value is then
\* ((price1*3 mod 2^64) >> 2) + ((price2*5 mod 2^64) >> 3) +
\* ((price3*7 mod 2^64) >> 4) mod 2^64: 2668 for the prices 1100, 1200, 2500
\* and 3 * 2^60 - 2 for the prices 0, 2^64 - 1, 2^64 - 1.  An evaluation that
\* ends without a decision reports no final_arbitrage_value.
C12_FinalValueIffOpportunity ==
    arb_pc = "done" =>
        IF Decided /\ arb_out.result = Ok
        THEN LET price1 == arb_quotes[1].value
                 price2 == arb_quotes[2].value
                 price3 == arb_quotes[3].value
             IN  /\ arb_out.final_arbitrage_value # <<>> <=> arb_out.arbitrage_opportunity
                 /\ arb_out.arbitrage_opportunity =>
                      arb_out.final_arbitrage_value =
                          <<WrappingAdd(WrappingAdd(Scaled(price1, 3, 2),
                                                    Scaled(price2, 5, 3)),
                                        Scaled(price3, 7, 4))>>
                 /\ (Scenario /\ arb_out.arbitrage_opportunity) =>
                      arb_out.final_arbitrage_value = <<U64(2668)>>
                 /\ (/\ price1 = U64(0) /\ price2 = U64MAX /\ price3 = U64MAX
                     /\ arb_out.arbitrage_opportunity) =>
                      arb_out.final_arbitrage_value = <<ScaledSumOfMax>>
        ELSE "final_arbitrage_value" \notin DOMAIN arb_out

C12_Witness ==
    /\ Decided
    /\ arb_out.result = Ok
    /\ arb_out.arbitrage_opportunity
    /\ arb_quotes[2].value = U64MAX
    /\ arb_out.final_arbitrage_value = <<ScaledSumOfMax>>

\* C20: the is_profitable flag is true exactly when potential_profit AND 1000
\* is 1000 (1000 has no bit above the lowest 16, so the test reads the lowest
\* limb); it is false for potential_profit = 1500, which is above 1000, and
\* true for potential_profit = -1, which is below.  The flag is only reported:
\* the opportunity is adjusted_profit > 1000 and the final value is there
\* exactly when the opportunity is, in the evaluations where the flag is true
\* and in those where it is false.
C20_FlagBitwiseOnlyReported ==
    (Decided /\ arb_out.result = Ok) =>
        /\ arb_out.is_profitable <=> (BitAnd(arb_out.potential_profit[1], 1000) = 1000)
        /\ arb_out.potential_profit = U64(1500) => ~arb_out.is_profitable
        /\ arb_out.potential_profit = U64MAX => arb_out.is_profitable
        /\ arb_out.arbitrage_opportunity <=>
               SignedGt(arb_out.adjusted_profit, OfNat(I128Limbs, 1000))
        /\ arb_out.final_arbitrage_value # <<>> <=> arb_out.arbitrage_opportunity

\* the flag is false where the profit exceeds 1000 and the opportunity is taken
C20_Witness ==
    /\ Decided
    /\ arb_out.result = Ok
    /\ arb_out.potential_profit = U64(1500)
    /\ ~arb_out.is_profitable
    /\ arb_out.arbitrage_opportunity

\* ------------------------------------------------------------------------
\* rebalance_portfolio
\* ------------------------------------------------------------------------

\* a / k and a % k for a small divisor k > 0: <<quotient limbs, remainder>>,
\* by long division from the top limb down
RECURSIVE DivRem(_, _)
DivRem(a, k) ==
    IF a = <<>> THEN <<<<>>, 0>>
    ELSE LET upper == DivRem(Tail(a), k)
             cur   == upper[2] * LimbBase + Head(a)
         IN  <<(<<cur \div k>> \o upper[1]), cur % k>>

Div(a, k) == DivRem(a, k)[1]

\* get_token_balance: Ok(1000), whatever the token
get_token_balance(token) == U64(1000)

\* let mut rebalance_steps = 5
rebalance_steps == 5

\* the `amount` argument, which rebalance_portfolio never reads
RebAmounts == {U64(0), U64(1000), U64MAX}

\* the error of a venue that cannot trade
TradeError == "TradeError"

TradeErrors == {TradeError, InvalidAccountData}

\* sell_token and buy_token return a Result: done, or an error
TradeResults ==
    {[ok |-> TRUE, error |-> Ok]} \cup {[ok |-> FALSE, error |-> e] : e \in TradeErrors}

Sides == {"a", "b"}

TokenOf(side) == IF side = "a" THEN "token_a" ELSE "token_b"

\* the target without the halving: the whole total
target_balance_unhalved(balance) == WrappingAdd(balance.a, balance.b)

\* target_balance_a and target_balance_b: total_balance / 2
target_balance(balance) == Div(WrappingAdd(balance.a, balance.b), 2)

\* initial_balance > target_balance: the side sells
Sells(balance, side) == UnsignedGt(balance[side], target_balance(balance))

\* difference_a and difference_b: the larger minus the smaller
difference(balance, side) ==
    IF Sells(balance, side)
    THEN WrappingSub(balance[side], target_balance(balance))
    ELSE WrappingSub(target_balance(balance), balance[side])

\* (difference / rebalance_steps) >> i
step_amount(balance, side, i) ==
    LogicalShr(Div(difference(balance, side), rebalance_steps), i)

\* the loop as `for i in 0..=rebalance_steps`
InLoopInclusive(i) == i <= rebalance_steps

\* for i in 0..rebalance_steps
InLoop(i) == i < rebalance_steps

\* what rebalance_portfolio returns after its loop (the source ends with the
\* loop; the adjustments are what its last msg! reported)
Rebalanced(adjustment) == [result |-> Ok, adjustment |-> adjustment]

\* rebalance_portfolio is entered: both balances are fetched, the targets and
\* the differences follow from them, the adjustments start at 0
RebStart ==
    /\ reb_pc = "idle"
    /\ \E amount \in RebAmounts : reb_amount' = amount
    /\ reb_balance' = [a |-> get_token_balance("token_a"),
                       b |-> get_token_balance("token_b")]
    /\ reb_i' = 0
    /\ reb_adjustment' = [a |-> U64(0), b |-> U64(0)]
    /\ reb_trades' = <<>>
    /\ IF InLoop(0)
       THEN reb_pc' = "side_a" /\ reb_out' = reb_out
       ELSE reb_pc' = "done" /\ reb_out' = Rebalanced([a |-> U64(0), b |-> U64(0)])
    /\ UNCHANGED <<ledger_vars, overflow_checks, arb_vars, liq_vars>>

\* one side's part of step i with the trade's result dropped: the loop goes
\* on after a failed trade
TradeIgnoringFailure(side) ==
    \E r \in TradeResults :
        LET amount == step_amount(reb_balance, side, reb_i)
            sells  == Sells(reb_balance, side)
        IN  /\ reb_trades' = Append(reb_trades,
                   [call |-> IF sells THEN "sell_token" ELSE "buy_token",
                    token |-> TokenOf(side), amount |-> amount, i |-> reb_i,
                    ok |-> r.ok, error |-> r.error])
            /\ reb_adjustment' = [reb_adjustment EXCEPT ![side] =
                   IF sells THEN WrappingAdd(@, amount) ELSE WrappingSub(@, amount)]
            /\ IF side = "a"
               THEN reb_pc' = "side_b" /\ reb_i' = reb_i /\ reb_out' = reb_out
               ELSE IF InLoop(reb_i + 1)
               THEN reb_pc' = "side_a" /\ reb_i' = reb_i + 1 /\ reb_out' = reb_out
               ELSE /\ reb_pc' = "done"
                    /\ reb_i' = reb_i
                    /\ reb_out' = Rebalanced(reb_adjustment')
            /\ UNCHANGED <<reb_amount, reb_balance, ledger_vars, overflow_checks, arb_vars, liq_vars>>

\* one side's part of step i: sell_token(token, step_amount)? and
\* adjustment += step_amount when the side sells, buy_token(token,
\* step_amount)? and adjustment -= step_amount otherwise.  The adjustments are
\* unsigned: a build that traps overflow aborts when the sum or the
\* difference leaves the u64 range.
Trade(side) ==
    \E r \in TradeResults :
        LET amount == step_amount(reb_balance, side, reb_i)
            sells  == Sells(reb_balance, side)
            traps  == /\ overflow_checks
                      /\ IF sells THEN AddCarries(reb_adjustment[side], amount)
                                  ELSE Borrows(reb_adjustment[side], amount)
        IN  /\ reb_trades' = Append(reb_trades,
                   [call |-> IF sells THEN "sell_token" ELSE "buy_token",
                    token |-> TokenOf(side), amount |-> amount, i |-> reb_i,
                    ok |-> r.ok, error |-> r.error])
            /\ IF ~r.ok
               THEN /\ reb_pc' = "done"
                    /\ reb_out' = [result |-> r.error]
                    /\ UNCHANGED <<reb_i, reb_adjustment>>
               ELSE IF traps
               THEN /\ reb_pc' = "done"
                    /\ reb_out' = [result |-> Panic]
                    /\ UNCHANGED <<reb_i, reb_adjustment>>
               ELSE /\ reb_adjustment' = [reb_adjustment EXCEPT ![side] =
                           IF sells THEN WrappingAdd(@, amount)
                                    ELSE WrappingSub(@, amount)]
                    /\ IF side = "a"
                       THEN reb_pc' = "side_b" /\ reb_i' = reb_i /\ reb_out' = reb_out
                       ELSE IF InLoop(reb_i + 1)
                       THEN reb_pc' = "side_a" /\ reb_i' = reb_i + 1 /\ reb_out' = reb_out
                       ELSE /\ reb_pc' = "done"
                            /\ reb_i' = reb_i
                            /\ reb_out' = Rebalanced(reb_adjustment')
            /\ UNCHANGED <<reb_amount, reb_balance, ledger_vars, overflow_checks, arb_vars, liq_vars>>

TradeA == reb_pc = "side_a" /\ Trade("a")

TradeB == reb_pc = "side_b" /\ Trade("b")

RebInit ==
    /\ LedgerInit
    /\ overflow_checks \in BOOLEAN
    /\ ArbIdle
    /\ RebIdle
    /\ LiqIdle

RebNext ==
    \/ RebStart
    \/ TradeA
    \/ TradeB

RebSpec == RebInit /\ [][RebNext]_vars

\* ------------------------------------------------------------------------
\* Properties of rebalance_portfolio
\* ------------------------------------------------------------------------

\* the trades made so far for one side
TradesOf(side) == {k \in 1..Len(reb_trades) : reb_trades[k].token = TokenOf(side)}

\* what C13 says a side does: it sells if its initial balance is greater than
\* (balance_a + balance_b mod 2^64) / 2 and buys otherwise
DirectionOf(side) ==
    IF UnsignedGt(reb_balance[side],
                  Div(WrappingAdd(reb_balance.a, reb_balance.b), 2))
    THEN "sell_token" ELSE "buy_token"

C15_TradeFailureAborts ==
    \A k \in 1..Len(reb_trades) :
        ~reb_trades[k].ok =>
            /\ reb_pc = "done"
            /\ reb_out.result = reb_trades[k].error
            /\ k = Len(reb_trades)
            /\ \A j \in 1..(k - 1) :
                   <<reb_trades[j].token, reb_trades[j].i>>
                       # <<reb_trades[k].token, reb_trades[k].i>>

C15_Witness ==
    /\ Len(reb_trades) = 3
    /\ ~reb_trades[3].ok
    /\ reb_trades[3].token = "token_a"
    /\ reb_trades[3].i = 1
    /\ reb_out.result = TradeError

\* what C21 gives as a side's amount in step i: (difference / steps) >> i,
\* the difference being the side's distance from (balance_a + balance_b) / 2
AmountOfStep(side, i) ==
    LET target == Div(WrappingAdd(reb_balance.a, reb_balance.b), 2)
        dist   == IF UnsignedGt(reb_balance[side], target)
                  THEN WrappingSub(reb_balance[side], target)
                  ELSE WrappingSub(target, reb_balance[side])
    IN  LogicalShr(Div(dist, rebalance_steps), i)

\* the sum modulo 2^64 of the amounts of the trades at the positions ks
RECURSIVE SumOfAmounts(_)
SumOfAmounts(ks) ==
    IF ks = {} THEN U64(0)
    ELSE LET k == CHOOSE x \in ks : TRUE
         IN  WrappingAdd(reb_trades[k].amount, SumOfAmounts(ks \ {k}))

ShiftLeft1(a, inbit) == MulC(a, 2, inbit)

\* bit j of a, bit 0 the least significant
BitAt(a, j) == (a[(j \div 16) + 1] \div Pow2(j % 16)) % 2

SetBit(a, j) == [a EXCEPT ![(j \div 16) + 1] = @ + Pow2(j % 16)]

\* one bit of a binary long division by d: the remainder so far takes in
\* `bit`, and d is subtracted from it where it fits
DivStep(above, d, j, bit) ==
    IF Borrows(ShiftLeft1(above[2], bit), d)
    THEN <<above[1], ShiftLeft1(above[2], bit)>>
    ELSE <<SetBit(above[1], j), WrappingSub(ShiftLeft1(above[2], bit), d)>>

\* binary long division of n by d (d one limb wider than n): <<quotient,
\* remainder>> once the bits of n below bit `stop` down to bit j are taken
\* in, starting from the <<quotient, remainder>> `start` of the bits above
RECURSIVE DivLoop(_, _, _, _, _)
DivLoop(n, d, j, stop, start) ==
    IF j = stop THEN start
    ELSE CHOOSE below \in {DivStep(above, d, j, BitAt(n, j)) :
                              above \in {DivLoop(n, d, j + 1, stop, start)}} : TRUE

\* the upper half of the bits of n first, then the lower half
DivHalves(n, d) ==
    CHOOSE low \in {DivLoop(n, d, 0, 8 * Len(n), high) :
                       high \in {DivLoop(n, d, 8 * Len(n), 16 * Len(n),
                                         <<Fill(Len(n), 0), Fill(Len(n) + 1, 0)>>)}} : TRUE

\* n / d on unsigned numbers of equal length, for d > 0
UDiv(n, d) == DivHalves(n, ZeroExtend(d, Len(n) + 1))[1]

\* for step in 0..5
LiquiditySteps == 5

\* the least amount for which amount + amount>>1 + ... + amount>>4 + 10
\* reaches 2^64: 0x8421084210842104
Crossing == <<8452, 4228, 2114, 33825>>

\* how far on each side of 0 and of Crossing the amounts of token B reach
Window == 4

\* the amounts from c - Window to c + Window, modulo 2^64
Around(c) ==
    {WrappingAdd(WrappingSub(c, U64(Window)), U64(d)) : d \in 0..(2 * Window)}

LiqAmountsA == {U64(0), U64(1000), U64MAX}

\* the amounts with a single bit set, and those with every bit below it set
PowersOfTwo == {SetBit(U64(0), k) : k \in 0..(16 * U64Limbs - 1)}

AllOnesBelow == {WrappingSub(p, U64(1)) : p \in PowersOfTwo}

\* the least and the greatest amounts, those where the total wraps, and
\* amounts of every bit length
LiqAmountsB ==
    Around(U64(0)) \cup Around(Crossing) \cup PowersOfTwo \cup AllOnesBelow

\* adjust_liquidity returns Result<u64, ProgramError>: an amount, or an error
AdjustResults ==
    {[ok |-> TRUE, value |-> v, error |-> Ok] : v \in {U64(0), U64MAX}}
    \cup {[ok |-> FALSE, value |-> <<>>, error |-> e] : e \in TradeErrors}

\* the provision of a step without the step added: amount >> step
provision_amount_unstepped(amount, step) == LogicalShr(amount, step)

\* (amount >> step).wrapping_add(step as u64)
provision_amount(amount, step) == WrappingAdd(LogicalShr(amount, step), U64(step))

\* execute_liquidity_provision is entered with its two amounts
LiqStart ==
    /\ liq_pc = "idle"
    /\ \E amount_a \in LiqAmountsA, amount_b \in LiqAmountsB :
           liq_amount' = [a |-> amount_a, b |-> amount_b]
    /\ liq_total' = [a |-> U64(0), b |-> U64(0)]
    /\ liq_step' = 0
    /\ liq_pc' = "loop"
    /\ UNCHANGED <<liq_out, ledger_vars, overflow_checks, arb_vars, reb_vars>>

\* one pass of the loop: both provisions are added to their totals
Provide ==
    /\ liq_pc = "loop"
    /\ liq_total' =
           [a |-> WrappingAdd(liq_total.a, provision_amount(liq_amount.a, liq_step)),
            b |-> WrappingAdd(liq_total.b, provision_amount(liq_amount.b, liq_step))]
    /\ liq_step' = liq_step + 1
    /\ liq_pc' = IF liq_step + 1 < LiquiditySteps THEN "loop" ELSE "divide"
    /\ UNCHANGED <<liq_amount, liq_out, ledger_vars, overflow_checks, arb_vars, reb_vars>>

\* total_liquidity_a.wrapping_mul(1000) / total_liquidity_b: the division
\* aborts on a zero divisor, whatever the build
Divide ==
    /\ liq_pc = "divide"
    /\ IF liq_total.b = U64(0)
       THEN liq_pc' = "done" /\ liq_out' = [result |-> Panic]
       ELSE /\ liq_pc' = "adjust_a"
            /\ liq_out' = [result |-> "none",
                           liquidity_ratio |->
                               UDiv(WrappingMul(liq_total.a, 1000), liq_total.b)]
    /\ UNCHANGED <<liq_amount, liq_step, liq_total, ledger_vars, overflow_checks,
                   arb_vars, reb_vars>>

\* adjust_liquidity(router, token, total)?: an error ends the routine
Adjust(next) ==
    \E r \in AdjustResults :
        /\ IF r.ok
           THEN /\ liq_pc' = next
                /\ liq_out' = IF next = "done" THEN [liq_out EXCEPT !.result = Ok]
                              ELSE liq_out
           ELSE liq_pc' = "done" /\ liq_out' = [result |-> r.error]
        /\ UNCHANGED <<liq_amount, liq_step, liq_total, ledger_vars, overflow_checks,
                       arb_vars, reb_vars>>

AdjustA == liq_pc = "adjust_a" /\ Adjust("adjust_b")

AdjustB == liq_pc = "adjust_b" /\ Adjust("done")

LiqInit ==
    /\ LedgerInit
    /\ overflow_checks \in BOOLEAN
    /\ ArbIdle
    /\ RebIdle
    /\ LiqIdle

LiqNext ==
    \/ LiqStart
    \/ Provide
    \/ Divide
    \/ AdjustA
    \/ AdjustB

LiqSpec == LiqInit /\ [][LiqNext]_vars

\* ------------------------------------------------------------------------
\* Properties of execute_liquidity_provision
\* ------------------------------------------------------------------------

\* the wrap-around sum over step = 0..4 of (amount >> step) + step
TotalOf(amount) ==
    WrappingAdd(WrappingAdd(WrappingAdd(WrappingAdd(
        WrappingAdd(LogicalShr(amount, 0), U64(0)),
        WrappingAdd(LogicalShr(amount, 1), U64(1))),
        WrappingAdd(LogicalShr(amount, 2), U64(2))),
        WrappingAdd(LogicalShr(amount, 3), U64(3))),
        WrappingAdd(LogicalShr(amount, 4), U64(4)))

\* C23: once the loop of execute_liquidity_provision is over, the total for
\* token B is the wrap-around sum over step = 0..4 of (amount_b >> step) +
\* step and is not zero: it is 10 for amount_b = 0, 2^64 - 2 for the last
\* amount before the sum wraps and 1 for the first amount after; and no
\* execution ends in the abort of a division by zero.
C23_TotalBNeverZero ==
    /\ liq_pc \in {"divide", "adjust_a", "adjust_b", "done"} =>
           /\ liq_total.b = TotalOf(liq_amount.b)
           /\ liq_total.b # U64(0)
           /\ liq_amount.b = U64(0) => liq_total.b = U64(10)
           /\ liq_amount.b = Crossing => liq_total.b = U64(1)
           /\ liq_amount.b = WrappingSub(Crossing, U64(1)) =>
                  liq_total.b = WrappingSub(U64(0), U64(2))
    /\ liq_out.result # Panic

\* the total has wrapped past 2^64 and the ratio has been computed
C23_Witness ==
    /\ liq_pc = "done"
    /\ liq_out.result = Ok
    /\ liq_amount.b = Crossing
    /\ liq_total.b = U64(1)
    /\ liq_amount.a = U64(1000)
    /\ liq_out.liquidity_ratio = U64(1947000)

====
